---- MODULE Spec2Model ----
(***************************************************************************)
(* Universal Model Registry: the model table, the identifier resolution    *)
(* of get_model_info / check_model_status, the filters of list_models, the *)
(* scoring and ranking of recommend_model and the compare_models tool.     *)
(*                                                                         *)
(* Strings are sequences of code points, so that str.lower(), the `in`     *)
(* substring test, == and sorted() are computed and not assumed.           *)
(* Prices are integers in thousandths of a currency unit (mills); scores   *)
(* are integers in 1/10000 of a score point (price * 0.3 is 3 units per    *)
(* mill), which keeps the arithmetic of the scorer exact.                  *)
(***************************************************************************)
EXTENDS Integers, Sequences, FiniteSets, TLC

VARIABLES MODELS, call, result, lookups, scored, initial, script

vars == <<MODELS, call, result, lookups, scored, initial, script>>

(* ---------------------------------------------------------------------- *)
(* Bounds                                                                  *)
(* ---------------------------------------------------------------------- *)
MaxQueryLen == 2

MaxKeys == 2

MaxListed == 2

MaxRanked == 4

MaxCompared == 6

MaxCatalog == 3

MaxValidated == 2

(* ---------------------------------------------------------------------- *)
(* Python str                                                              *)
(* ---------------------------------------------------------------------- *)
Letters == <<"a","b","c","d","e","f","g","h","i","j","k","l","m",
             "n","o","p","q","r","s","t","u","v","w","x","y","z">>

Capitals == <<"A","B","C","D","E","F","G","H","I","J","K","L","M",
              "N","O","P","Q","R","S","T","U","V","W","X","Y","Z">>

Ord(c) ==
    IF \E i \in 1..26 : Letters[i] = c
    THEN 96 + (CHOOSE i \in 1..26 : Letters[i] = c)
    ELSE IF \E i \in 1..26 : Capitals[i] = c
    THEN 64 + (CHOOSE i \in 1..26 : Capitals[i] = c)
    ELSE IF c = " " THEN 32
    ELSE IF c = "-" THEN 45
    ELSE 63

RECURSIVE S(_)
S(t) == IF Len(t) = 0 THEN <<>> ELSE <<Ord(Head(t))>> \o S(Tail(t))

LowerChar(c) == IF c >= 65 /\ c <= 90 THEN c + 32 ELSE c

RECURSIVE Lower(_)
Lower(s) == IF Len(s) = 0 THEN <<>> ELSE <<LowerChar(Head(s))>> \o Lower(Tail(s))

UpperChar(c) == IF c >= 97 /\ c <= 122 THEN c - 32 ELSE c

RECURSIVE Upper(_)
Upper(s) == IF Len(s) = 0 THEN <<>> ELSE <<UpperChar(Head(s))>> \o Upper(Tail(s))

Contains(s, sub) ==
    \E k \in 0..(Len(s) - Len(sub)) :
        \A i \in 1..Len(sub) : s[k + i] = sub[i]

StrLess(a, b) ==
    \/ /\ Len(a) < Len(b)
       /\ \A i \in 1..Len(a) : a[i] = b[i]
    \/ \E k \in 1..Len(a) :
        /\ k <= Len(b)
        /\ \A i \in 1..(k - 1) : a[i] = b[i]
        /\ a[k] < b[k]

Sorted(keys) ==
    [i \in 1..Len(keys) |->
        CHOOSE k \in {keys[j] : j \in 1..Len(keys)} :
            Cardinality({j \in 1..Len(keys) : StrLess(keys[j], k)}) = i - 1]

Truthy(s) == Len(s) > 0

(* ---------------------------------------------------------------------- *)
(* Number formatting                                                       *)
(* ---------------------------------------------------------------------- *)
RECURSIVE Grouped(_)
Grouped(n) == IF n < 1000 THEN <<n>> ELSE Append(Grouped(n \div 1000), n % 1000)

(* f"{x:.2f}" rounds the binary double nearest to x: a price that ends in *)
(* half a cent goes up or down with its double.  TieUp lists the prices     *)
(* below 100 mills that go up; the tables use no other half-cent price.     *)
TieUp(p) == p \in {5, 25, 35, 55, 65, 85, 95}

Fmt2(p) ==
    LET q == p \div 10
        r == p % 10
        cents == IF r > 5 \/ (r = 5 /\ TieUp(p)) THEN q + 1 ELSE q
    IN  [units |-> cents \div 100, hundredths |-> cents % 100]

(* ---------------------------------------------------------------------- *)
(* The model table: an insertion-ordered dict, modelled as a sequence of   *)
(* records with pairwise distinct ids (the dict keys).                     *)
(* ---------------------------------------------------------------------- *)
CURRENT == S(<<"c","u","r","r","e","n","t">>)

LEGACY == S(<<"l","e","g","a","c","y">>)

DEPRECATED == S(<<"d","e","p","r","e","c","a","t","e","d">>)

OPENAI == S(<<"O","p","e","n","A","I">>)

META == S(<<"M","e","t","a">>)

DisplayName(id) == S(<<"M"," ">>) \o id

Rec(id, prof) ==
    [id |-> id,
     display_name |-> DisplayName(id),
     provider |-> prof.provider,
     status |-> prof.status,
     context_window |-> prof.context_window,
     max_output_tokens |-> prof.max_output_tokens,
     vision |-> prof.vision,
     reasoning |-> prof.reasoning,
     pricing_input |-> prof.pricing_input,
     pricing_output |-> prof.pricing_output,
     knowledge_cutoff |-> S(<<"x">>),
     release_date |-> S(<<"y">>),
     notes |-> prof.notes]

Prof(provider, status, ctx, vision, reasoning, pin, notes) ==
    [provider |-> provider, status |-> status, context_window |-> ctx,
     max_output_tokens |-> 4096, vision |-> vision, reasoning |-> reasoning,
     pricing_input |-> pin, pricing_output |-> 4 * pin, notes |-> notes]

Keys(T) == [i \in 1..Len(T) |-> T[i].id]

KeySet(T) == {T[i].id : i \in 1..Len(T)}

(* ---------------------------------------------------------------------- *)
(* Renderers                                                               *)
(* ---------------------------------------------------------------------- *)
NoResult == [kind |-> "none"]

(* The validation script is a separate program: while the server runs it   *)
(* has not been started.  initial keeps the table as it was constructed.   *)
NotStarted == [pc |-> "not_started", RESULTS |-> <<>>, ran |-> <<>>, exit |-> <<>>]

Idle == [op |-> "idle"]

Dash == <<8212>>

FormatRow(m) ==
    [id |-> m.id, display_name |-> m.display_name, provider |-> m.provider,
     status |-> m.status, context |-> Grouped(m.context_window),
     pricing_input |-> Fmt2(m.pricing_input),
     pricing_output |-> Fmt2(m.pricing_output)]

FormatTable(models) ==
    IF Len(models) = 0
    THEN [kind |-> "no_models_found"]
    ELSE [kind |-> "table",
          rows |-> [i \in 1..Len(models) |-> FormatRow(models[i])]]

ModelDetail(m) ==
    [kind |-> "detail",
     display_name |-> m.display_name,
     id |-> m.id,
     provider |-> m.provider,
     status |-> m.status,
     context |-> Grouped(m.context_window),
     max_output |-> Grouped(m.max_output_tokens),
     caps |-> (IF m.vision THEN <<"Vision">> ELSE <<>>)
              \o (IF m.reasoning THEN <<"Reasoning/Thinking">> ELSE <<>>),
     pricing_input |-> Fmt2(m.pricing_input),
     pricing_output |-> Fmt2(m.pricing_output),
     knowledge_cutoff |-> m.knowledge_cutoff,
     release_date |-> m.release_date,
     notes |-> IF Truthy(m.notes) THEN m.notes ELSE Dash]

(* ---------------------------------------------------------------------- *)
(* Identifier resolution (get_model_info, check_model_status)              *)
(* ---------------------------------------------------------------------- *)
NotFound == 0

RECURSIVE Scan(_, _, _)
Scan(T, ql, i) ==
    IF i > Len(T) THEN NotFound
    ELSE IF Lower(T[i].id) = ql \/ Contains(Lower(T[i].id), ql) THEN i
    ELSE Scan(T, ql, i + 1)

(* Mutants of Resolve: without the exact dict lookup; with the last hit. *)
ResolveWithoutExact(T, model_id) == Scan(T, Lower(model_id), 1)

ResolveLastHit(T, model_id) ==
    IF \E i \in 1..Len(T) : T[i].id = model_id
    THEN CHOOSE i \in 1..Len(T) : T[i].id = model_id
    ELSE LET hits == {i \in 1..Len(T) : Contains(Lower(T[i].id), Lower(model_id))}
         IN  IF hits = {} THEN NotFound
             ELSE CHOOSE i \in hits : \A j \in hits : j <= i

Resolve(T, model_id) ==
    IF \E i \in 1..Len(T) : T[i].id = model_id
    THEN CHOOSE i \in 1..Len(T) : T[i].id = model_id
    ELSE Scan(T, Lower(model_id), 1)

(* Mutants of InfoNotFound: echoing the lowercased query; table order. *)
InfoNotFoundLowered(T, model_id) ==
    [kind |-> "info_not_found", model_id |-> Lower(model_id),
     known |-> Sorted(Keys(T))]

InfoNotFoundUnsorted(T, model_id) ==
    [kind |-> "info_not_found", model_id |-> model_id, known |-> Keys(T)]

InfoNotFound(T, model_id) ==
    [kind |-> "info_not_found", model_id |-> model_id, known |-> Sorted(Keys(T))]

GetModelInfoResult(T, model_id) ==
    LET i == Resolve(T, model_id)
    IN  IF i = NotFound THEN InfoNotFound(T, model_id) ELSE ModelDetail(T[i])

(* list.sort(key=...) is stable: the result lists the elements by ascending *)
(* key, equal keys in their original order.                                 *)
StableSort(items, key) ==
    LET n == Len(items)
        rank(i) == Cardinality({j \in 1..n :
                        key[j] < key[i] \/ (key[j] = key[i] /\ j < i)}) + 1
    IN  [r \in 1..n |-> items[CHOOSE i \in 1..n : rank(i) = r]]

Abs(x) == IF x < 0 THEN 0 - x ELSE x

(* Mutant of PriceGaps: the signed difference. *)
RECURSIVE PriceGapsSigned(_, _)
PriceGapsSigned(models, model) ==
    IF Len(models) = 0 THEN <<>>
    ELSE <<Head(models).pricing_input - model.pricing_input>>
         \o PriceGapsSigned(Tail(models), model)

RECURSIVE PriceGaps(_, _)
PriceGaps(models, model) ==
    IF Len(models) = 0 THEN <<>>
    ELSE <<Abs(Head(models).pricing_input - model.pricing_input)>>
         \o PriceGaps(Tail(models), model)

Replacements(T, model) ==
    LET same(m) == m.provider = model.provider /\ m.status = CURRENT
        cands == SelectSeq(T, same)
    IN  StableSort(cands, PriceGaps(cands, model))

StatusNotFound(model_id) ==
    [kind |-> "status_not_found", model_id |-> model_id]

CheckModelStatusResult(T, model_id) ==
    LET i == Resolve(T, model_id)
    IN  IF i = NotFound THEN StatusNotFound(model_id)
        ELSE LET model == T[i]
                 reps == IF model.status \in {LEGACY, DEPRECATED}
                         THEN Replacements(T, model) ELSE <<>>
             IN  [kind |-> "status",
                  display_name |-> model.display_name,
                  id |-> model.id,
                  status |-> model.status,
                  replacement |-> IF Len(reps) > 0
                                  THEN <<[display_name |-> reps[1].display_name,
                                          id |-> reps[1].id]>>
                                  ELSE <<>>,
                  note |-> IF Truthy(model.notes) THEN <<model.notes>> ELSE <<>>]

(* ---------------------------------------------------------------------- *)
(* Tool calls.  The dispatcher serves one request at a time: a tool runs   *)
(* on a request, its return value is the response, and Respond hands the   *)
(* response back before the next request is taken.  lookups records the    *)
(* identifiers the call passed to the resolver, in order.                  *)
(* ---------------------------------------------------------------------- *)
KeyAlphabet == {97, 65, 98}

RECURSIVE StringsUpTo(_)
StringsUpTo(n) ==
    IF n = 0 THEN {<<>>}
    ELSE LET shorter == StringsUpTo(n - 1)
         IN  shorter \cup {Append(s, c) : s \in shorter, c \in KeyAlphabet}

Queries == StringsUpTo(MaxQueryLen)

KeyPool == StringsUpTo(2) \ {<<>>}

GetModelInfo ==
    /\ call = Idle
    /\ \E model_id \in Queries :
        /\ call' = [op |-> "get_model_info", model_id |-> model_id]
        /\ result' = GetModelInfoResult(MODELS, model_id)
        /\ lookups' = <<model_id>>
        /\ scored' = <<>>
    /\ UNCHANGED <<MODELS, initial, script>>

CheckModelStatus ==
    /\ call = Idle
    /\ \E model_id \in Queries :
        /\ call' = [op |-> "check_model_status", model_id |-> model_id]
        /\ result' = CheckModelStatusResult(MODELS, model_id)
        /\ lookups' = <<model_id>>
        /\ scored' = <<>>
    /\ UNCHANGED <<MODELS, initial, script>>

Respond ==
    /\ call # Idle
    /\ call' = Idle
    /\ result' = NoResult
    /\ lookups' = <<>>
    /\ scored' = <<>>
    /\ UNCHANGED <<MODELS, initial, script>>

(* ---------------------------------------------------------------------- *)
(* Tables of the resolution checks: every ordered choice of at most        *)
(* MaxKeys distinct keys of one or two characters over KeyAlphabet; the    *)
(* other fields follow the key.                                            *)
(* ---------------------------------------------------------------------- *)
SeqsUpTo(X, n) == UNION {[1..k -> X] : k \in 0..n}

Injective(f) == \A i, j \in DOMAIN f : f[i] = f[j] => i = j

ResolveProf(id) ==
    IF id[1] = 98
    THEN Prof(OPENAI, LEGACY, 128000, FALSE, TRUE, 2500, S(<<"o","l","d">>))
    ELSE IF Len(id) = 1
    THEN Prof(OPENAI, CURRENT, 200000, TRUE, FALSE, 75, <<>>)
    ELSE Prof(OPENAI, CURRENT, 1000000, TRUE, TRUE, 2000, <<>>)

ResolveTables ==
    {[i \in 1..Len(ks) |-> Rec(ks[i], ResolveProf(ks[i]))] :
        ks \in {f \in SeqsUpTo(KeyPool, MaxKeys) : Injective(f)}}

InitResolve ==
    /\ MODELS \in ResolveTables
    /\ call = Idle
    /\ result = NoResult
    /\ lookups = <<>>
    /\ scored = <<>>
    /\ initial = MODELS
    /\ script = NotStarted

NextResolve == GetModelInfo \/ CheckModelStatus \/ Respond

SpecResolve == InitResolve /\ [][NextResolve]_vars

(* ---------------------------------------------------------------------- *)
(* list_models.  An Optional[str] argument is <<>> for None and <<s>> for  *)
(* the string s; a filter runs when its argument is truthy.                *)
(* ---------------------------------------------------------------------- *)
None == <<>>

Some(s) == <<s>>

(* Mutant of Given: "is not None" in place of truthiness. *)
GivenNotNone(opt) == Len(opt) = 1

Given(opt) == Len(opt) = 1 /\ Truthy(opt[1])

VISION == S(<<"v","i","s","i","o","n">>)

REASONING == S(<<"r","e","a","s","o","n","i","n","g">>)

THINKING == S(<<"t","h","i","n","k","i","n","g">>)

(* Mutant of FilterProvider: case-sensitive comparison. *)
FilterProviderCaseSensitive(results, provider) ==
    IF Given(provider)
    THEN LET keep(m) == m.provider = provider[1]
         IN  SelectSeq(results, keep)
    ELSE results

FilterProvider(results, provider) ==
    IF Given(provider)
    THEN LET p == Lower(provider[1])
             keep(m) == Lower(m.provider) = p
         IN  SelectSeq(results, keep)
    ELSE results

FilterStatus(results, status) ==
    IF Given(status)
    THEN LET s == Lower(status[1])
             keep(m) == Lower(m.status) = s
         IN  SelectSeq(results, keep)
    ELSE results

(* Mutant of FilterCapability: "thinking" not recognised. *)
FilterCapabilityNoThinking(results, capability) ==
    IF Given(capability)
    THEN LET c == Lower(capability[1])
             hasVision(m) == m.vision
             hasReasoning(m) == m.reasoning
         IN  IF c = VISION THEN SelectSeq(results, hasVision)
             ELSE IF c = REASONING THEN SelectSeq(results, hasReasoning)
             ELSE results
    ELSE results

FilterCapability(results, capability) ==
    IF Given(capability)
    THEN LET c == Lower(capability[1])
             hasVision(m) == m.vision
             hasReasoning(m) == m.reasoning
         IN  IF c = VISION THEN SelectSeq(results, hasVision)
             ELSE IF c \in {REASONING, THINKING} THEN SelectSeq(results, hasReasoning)
             ELSE results
    ELSE results

ListModelsResult(T, provider, status, capability) ==
    FormatTable(FilterCapability(FilterStatus(FilterProvider(T, provider), status),
                                 capability))

ProviderArgs ==
    {None, Some(<<>>), Some(Upper(OPENAI)), Some(Lower(META)),
     Some(S(<<"O","p","e","n">>))}

StatusArgs ==
    {None, Some(<<>>), Some(Upper(CURRENT)), Some(LEGACY), Some(DEPRECATED)}

CapabilityArgs ==
    {None, Some(<<>>), Some(Upper(VISION)), Some(REASONING),
     Some(S(<<"T","h","i","n","k","i","n","g">>)), Some(S(<<"a","u","d","i","o">>))}

ListModels ==
    /\ call = Idle
    /\ \E provider \in ProviderArgs, status \in StatusArgs,
          capability \in CapabilityArgs :
        /\ call' = [op |-> "list_models", provider |-> provider,
                    status |-> status, capability |-> capability]
        /\ result' = ListModelsResult(MODELS, provider, status, capability)
        /\ lookups' = <<>>
        /\ scored' = <<>>
    /\ UNCHANGED <<MODELS, initial, script>>

(* Tables of the filter checks: ids by position, and in every position any *)
(* of four provider/status pairs with any combination of capability flags. *)
PosId(i) == S(<<"m">>) \o <<48 + i>>

ListProfiles ==
    {Prof(ps[1], ps[2], 128000, v, r, 2500, <<>>) :
        ps \in {<<OPENAI, CURRENT>>, <<OPENAI, LEGACY>>, <<META, DEPRECATED>>},
        v \in BOOLEAN, r \in BOOLEAN}

PosTables(profiles, n) ==
    {[i \in 1..Len(ps) |-> Rec(PosId(i), ps[i])] : ps \in SeqsUpTo(profiles, n)}

InitList ==
    /\ MODELS \in PosTables(ListProfiles, MaxListed)
    /\ call = Idle
    /\ result = NoResult
    /\ lookups = <<>>
    /\ scored = <<>>
    /\ initial = MODELS
    /\ script = NotStarted

NextList == ListModels \/ Respond

SpecList == InitList /\ [][NextList]_vars

(* ---------------------------------------------------------------------- *)
(* recommend_model.  Scores are in 1/10000 of a point: 3 points are 30000, *)
(* a price of p mills is 10 * p, and price * 0.3 is 3 * p.                 *)
(* ---------------------------------------------------------------------- *)
MODERATE == S(<<"m","o","d","e","r","a","t","e">>)

CHEAP == S(<<"c","h","e","a","p">>)

UNLIMITED == S(<<"u","n","l","i","m","i","t","e","d">>)

Max2(a, b) == IF a >= b THEN a ELSE b

Min2(a, b) == IF a <= b THEN a ELSE b

NormalBudget(budget) == Lower(IF Given(budget) THEN budget[1] ELSE MODERATE)

HasAny(task_lower, words) == \E w \in words : Contains(task_lower, w)

CodingWords == {S(<<"c","o","d","i","n","g">>), S(<<"c","o","d","e">>)}

VisionWords == {S(<<"v","i","s","i","o","n">>), S(<<"i","m","a","g","e">>)}

ReasonWords ==
    {S(<<"r","e","a","s","o","n">>), S(<<"t","h","i","n","k">>), S(<<"m","a","t","h">>)}

LongContextWords ==
    {S(<<"l","o","n","g"," ","c","o","n","t","e","x","t">>),
     S(<<"l","a","r","g","e"," ","d","o","c","u","m","e","n","t">>)}

CheapWords == {S(<<"c","h","e","a","p">>), S(<<"b","a","t","c","h">>), S(<<"c","o","s","t">>)}

CodingScore(m, task_lower) ==
    IF HasAny(task_lower, CodingWords)
    THEN (IF m.reasoning THEN 30000 ELSE 0)
         + (IF m.context_window >= 200000 THEN 10000 ELSE 0)
    ELSE 0

(* Mutant of VisionScore: no penalty for records without vision. *)
VisionScoreNoPenalty(m, task_lower) ==
    IF HasAny(task_lower, VisionWords)
    THEN (IF m.vision THEN 40000 ELSE 0)
    ELSE 0

VisionScore(m, task_lower) ==
    IF HasAny(task_lower, VisionWords)
    THEN (IF m.vision THEN 40000 ELSE 0 - 100000)
    ELSE 0

ReasonScore(m, task_lower) ==
    IF HasAny(task_lower, ReasonWords)
    THEN (IF m.reasoning THEN 50000 ELSE 0)
    ELSE 0

LongContextScore(m, task_lower) ==
    IF HasAny(task_lower, LongContextWords)
    THEN (IF m.context_window >= 1000000 THEN 40000
          ELSE IF m.context_window >= 200000 THEN 20000 ELSE 0)
    ELSE 0

CheapScore(m, task_lower) ==
    IF HasAny(task_lower, CheapWords)
    THEN Max2(0, 50000 - 10 * m.pricing_input)
    ELSE 0

(* Mutant of BudgetScore: the cheap budget without the penalty above 5.     *)
BudgetScoreNoPenalty(m, budget) ==
    IF budget = CHEAP
    THEN Max2(0, 30000 - 10 * m.pricing_input)
    ELSE IF budget = UNLIMITED
    THEN Min2(10 * m.pricing_input, 50000)
    ELSE 0

BudgetScore(m, budget) ==
    IF budget = CHEAP
    THEN Max2(0, 30000 - 10 * m.pricing_input)
         - (IF m.pricing_input > 5000 THEN 50000 ELSE 0)
    ELSE IF budget = UNLIMITED
    THEN Min2(10 * m.pricing_input, 50000)
    ELSE 0

QualityScore(m) == Min2(3 * m.pricing_input, 20000)

Score(m, task_lower, budget) ==
    CodingScore(m, task_lower) + VisionScore(m, task_lower)
    + ReasonScore(m, task_lower) + LongContextScore(m, task_lower)
    + CheapScore(m, task_lower) + BudgetScore(m, budget) + QualityScore(m)

(* Mutant of CurrentModels: no status filter. *)
AllModels(T) == T

CurrentModels(T) == LET isCurrent(m) == m.status = CURRENT IN SelectSeq(T, isCurrent)

(* scored.sort(key=score, reverse=True): descending, equal scores in their *)
(* original order.                                                         *)
RECURSIVE NegScores(_, _, _)
NegScores(models, task_lower, budget) ==
    IF Len(models) = 0 THEN <<>>
    ELSE <<0 - Score(Head(models), task_lower, budget)>>
         \o NegScores(Tail(models), task_lower, budget)

(* Mutant of Ranked: an ascending sort read backwards, which turns equal   *)
(* scores around.                                                          *)
RankedTiesReversed(T, task_lower, budget) ==
    LET current == CurrentModels(T)
        neg == NegScores(current, task_lower, budget)
        RECURSIVE Negated(_)
        Negated(s) == IF Len(s) = 0 THEN <<>> ELSE <<0 - Head(s)>> \o Negated(Tail(s))
        RECURSIVE Reversed(_)
        Reversed(s) == IF Len(s) = 0 THEN <<>> ELSE Append(Reversed(Tail(s)), Head(s))
    IN  Reversed(StableSort(current, Negated(neg)))

Ranked(T, task_lower, budget) ==
    LET current == CurrentModels(T)
    IN  StableSort(current, NegScores(current, task_lower, budget))

Top(ranked) == SubSeq(ranked, 1, Min2(3, Len(ranked)))

(* The list the scoring loop appends to: one (score, record) per current   *)
(* record, in table order.                                                 *)
RECURSIVE ScoredList(_, _, _)
ScoredList(models, task_lower, budget) ==
    IF Len(models) = 0 THEN <<>>
    ELSE <<[score |-> Score(Head(models), task_lower, budget), id |-> Head(models).id]>>
         \o ScoredList(Tail(models), task_lower, budget)

Scored(T, task_lower, budget) == ScoredList(CurrentModels(T), task_lower, budget)

RecommendEntry(m) ==
    [display_name |-> m.display_name,
     id |-> m.id,
     provider |-> m.provider,
     caps |-> (IF m.vision THEN <<"vision">> ELSE <<>>)
              \o (IF m.reasoning THEN <<"reasoning">> ELSE <<>>),
     pricing_input |-> Fmt2(m.pricing_input),
     pricing_output |-> Fmt2(m.pricing_output),
     context |-> Grouped(m.context_window)]

RecommendModelResult(T, task, budget) ==
    LET b == NormalBudget(budget)
        top == Top(Ranked(T, Lower(task), b))
    IN  [kind |-> "recommendations", task |-> task, budget |-> b,
         entries |-> [i \in 1..Len(top) |-> RecommendEntry(top[i])]]

Tasks ==
    {<<>>,
     S(<<"g","e","n","e","r","a","l">>),
     S(<<"V","i","s","i","o","n">>),
     S(<<"i","m","a","g","e"," ","c","o","d","e"," ","r","e","a","s","o","n",
         " ","l","o","n","g"," ","c","o","n","t","e","x","t">>),
     S(<<"I","M","A","G","E"," ","m","a","t","h"," ","b","a","t","c","h">>),
     S(<<"c","o","d","i","n","g">>),
     S(<<"c","h","e","a","p"," ","l","a","r","g","e"," ","d","o","c","u","m","e","n","t">>)}

BudgetArgs ==
    {None, Some(<<>>), Some(Upper(CHEAP)), Some(UNLIMITED),
     Some(S(<<"b","o","g","u","s">>))}

RecommendModel ==
    /\ call = Idle
    /\ \E task \in Tasks, budget \in BudgetArgs :
        /\ call' = [op |-> "recommend_model", task |-> task, budget |-> budget]
        /\ result' = RecommendModelResult(MODELS, task, budget)
        /\ lookups' = <<>>
        /\ scored' = Scored(MODELS, Lower(task), NormalBudget(budget))
    /\ UNCHANGED <<MODELS, initial, script>>

(* Tables of the ranking checks: ids by position, profiles chosen to reach *)
(* the extremes of every scoring term.                                     *)
RankProfiles ==
    {Prof(OPENAI, CURRENT, 200000, TRUE, FALSE, 5500, <<>>),
     Prof(OPENAI, CURRENT, 128000, TRUE, FALSE, 8000, <<>>),
     Prof(OPENAI, CURRENT, 1000000, FALSE, TRUE, 0, <<>>),
     Prof(OPENAI, LEGACY, 1000000, TRUE, TRUE, 3000, <<>>)}

InitRank ==
    /\ MODELS \in PosTables(RankProfiles, MaxRanked)
    /\ call = Idle
    /\ result = NoResult
    /\ lookups = <<>>
    /\ scored = <<>>
    /\ initial = MODELS
    /\ script = NotStarted

NextRank == RecommendModel \/ Respond

SpecRank == InitRank /\ [][NextRank]_vars

(* ---------------------------------------------------------------------- *)
(* compare_models: fewer than 2 identifiers give the fixed message; only   *)
(* the first 5 identifiers are used; they are resolved in input order and  *)
(* the first that does not resolve ends the call with a not-found message. *)
(* ---------------------------------------------------------------------- *)
(* Mutant of Used: no truncation. *)
UsedAll(model_ids) == model_ids

Used(model_ids) == SubSeq(model_ids, 1, Min2(5, Len(model_ids)))

(* Mutant of FirstUnresolved: the last identifier that does not resolve. *)
LastUnresolved(T, ids, i) ==
    LET bad == {k \in i..Len(ids) : Resolve(T, ids[k]) = NotFound}
    IN  IF bad = {} THEN 0 ELSE CHOOSE k \in bad : \A j \in bad : j <= k

RECURSIVE FirstUnresolved(_, _, _)
FirstUnresolved(T, ids, i) ==
    IF i > Len(ids) THEN 0
    ELSE IF Resolve(T, ids[i]) = NotFound THEN i
    ELSE FirstUnresolved(T, ids, i + 1)

CompareColumn(m) ==
    [display_name |-> m.display_name, id |-> m.id, provider |-> m.provider,
     status |-> m.status, context |-> Grouped(m.context_window),
     pricing_input |-> Fmt2(m.pricing_input),
     pricing_output |-> Fmt2(m.pricing_output)]

CompareLookups(T, model_ids) ==
    IF Len(model_ids) < 2 THEN <<>>
    ELSE LET ids == Used(model_ids)
             bad == FirstUnresolved(T, ids, 1)
         IN  IF bad = 0 THEN ids ELSE SubSeq(ids, 1, bad)

CompareModelsResult(T, model_ids) ==
    IF Len(model_ids) < 2 THEN [kind |-> "at_least_2"]
    ELSE LET ids == Used(model_ids)
             bad == FirstUnresolved(T, ids, 1)
         IN  IF bad # 0
             THEN [kind |-> "compare_not_found", model_id |-> ids[bad]]
             ELSE [kind |-> "comparison",
                   columns |-> [i \in 1..Len(ids) |->
                                   CompareColumn(T[Resolve(T, ids[i])])]]

IdArgs == {PosId(1), Upper(PosId(1)), PosId(2), S(<<"z","z">>)}

CompareModels ==
    /\ call = Idle
    /\ \E model_ids \in SeqsUpTo(IdArgs, MaxCompared) :
        /\ call' = [op |-> "compare_models", model_ids |-> model_ids]
        /\ result' = CompareModelsResult(MODELS, model_ids)
        /\ lookups' = CompareLookups(MODELS, model_ids)
        /\ scored' = <<>>
    /\ UNCHANGED <<MODELS, initial, script>>

CompareProfiles ==
    {Prof(OPENAI, CURRENT, 200000, TRUE, FALSE, 2500, <<>>),
     Prof(META, LEGACY, 128000, FALSE, TRUE, 75, S(<<"o","l","d">>))}

InitCompare ==
    /\ MODELS \in PosTables(CompareProfiles, MaxListed)
    /\ call = Idle
    /\ result = NoResult
    /\ lookups = <<>>
    /\ scored = <<>>
    /\ initial = MODELS
    /\ script = NotStarted

NextCompare == CompareModels \/ Respond

SpecCompare == InitCompare /\ [][NextCompare]_vars

(* ---------------------------------------------------------------------- *)
(* search_models and get_pricing_summary                                   *)
(* ---------------------------------------------------------------------- *)
SearchMatches(m, q) ==
    \/ Contains(Lower(m.id), q)
    \/ Contains(Lower(m.display_name), q)
    \/ Contains(Lower(m.provider), q)
    \/ Contains(Lower(m.notes), q)

(* Mutant of SearchModelsResult: one row per matching field. *)
SearchModelsPerField(T, query) ==
    LET q == Lower(query)
        inId(m) == Contains(Lower(m.id), q)
        inName(m) == Contains(Lower(m.display_name), q)
        inProvider(m) == Contains(Lower(m.provider), q)
        inNotes(m) == Contains(Lower(m.notes), q)
    IN  FormatTable(SelectSeq(T, inId) \o SelectSeq(T, inName)
                    \o SelectSeq(T, inProvider) \o SelectSeq(T, inNotes))

SearchModelsResult(T, query) ==
    LET q == Lower(query)
        matches(m) == SearchMatches(m, q)
    IN  FormatTable(SelectSeq(T, matches))

RECURSIVE Prices(_)
Prices(models) ==
    IF Len(models) = 0 THEN <<>>
    ELSE <<Head(models).pricing_input>> \o Prices(Tail(models))

PricingRow(m) ==
    [id |-> m.id, display_name |-> m.display_name,
     pricing_input |-> Fmt2(m.pricing_input),
     pricing_output |-> Fmt2(m.pricing_output)]

(* Mutant of PricingSummaryResult: table order. *)
PricingSummaryUnsorted(T) ==
    LET current == CurrentModels(T)
    IN  [kind |-> "pricing",
         rows |-> [i \in 1..Len(current) |-> PricingRow(current[i])]]

PricingSummaryResult(T) ==
    LET current == CurrentModels(T)
        sorted == StableSort(current, Prices(current))
    IN  [kind |-> "pricing",
         rows |-> [i \in 1..Len(sorted) |-> PricingRow(sorted[i])]]

SearchModels ==
    /\ call = Idle
    /\ \E query \in Queries :
        /\ call' = [op |-> "search_models", query |-> query]
        /\ result' = SearchModelsResult(MODELS, query)
        /\ lookups' = <<>>
        /\ scored' = <<>>
    /\ UNCHANGED <<MODELS, initial, script>>

GetPricingSummary ==
    /\ call = Idle
    /\ call' = [op |-> "get_pricing_summary"]
    /\ result' = PricingSummaryResult(MODELS)
    /\ lookups' = <<>>
    /\ scored' = <<>>
    /\ UNCHANGED <<MODELS, initial, script>>

(* Tables of the status, search and pricing checks: keys by position, and  *)
(* in every position any of six provider/status/price/notes profiles.      *)
KeyAt(i) ==
    <<S(<<"a">>), S(<<"b">>), S(<<"a","a">>), S(<<"b","b">>), S(<<"a","b">>)>>[i]

CatalogProfiles ==
    {Prof(OPENAI, CURRENT, 128000, TRUE, FALSE, 1000, <<>>),
     Prof(OPENAI, CURRENT, 128000, TRUE, FALSE, 3000, S(<<"b","b">>)),
     Prof(OPENAI, LEGACY, 128000, TRUE, FALSE, 2000, <<>>),
     Prof(OPENAI, DEPRECATED, 128000, TRUE, FALSE, 2500, <<>>),
     Prof(META, CURRENT, 128000, FALSE, FALSE, 2000, <<>>),
     Prof(META, LEGACY, 128000, FALSE, FALSE, 75, S(<<"A","b">>))}

CatalogTables ==
    {[i \in 1..Len(ps) |-> Rec(KeyAt(i), ps[i])] :
        ps \in SeqsUpTo(CatalogProfiles, MaxCatalog)}

InitCatalog ==
    /\ MODELS \in CatalogTables
    /\ call = Idle
    /\ result = NoResult
    /\ lookups = <<>>
    /\ scored = <<>>
    /\ initial = MODELS
    /\ script = NotStarted

NextCatalog == CheckModelStatus \/ SearchModels \/ GetPricingSummary \/ Respond

SpecCatalog == InitCatalog /\ [][NextCatalog]_vars

(* ---------------------------------------------------------------------- *)
(* The two bulk views                                                      *)
(* ---------------------------------------------------------------------- *)
(* json.dumps(MODELS, indent=2): every key with its record, in table order. *)
GetAllModelsResult(T) ==
    [kind |-> "json", items |-> [i \in 1..Len(T) |-> [key |-> T[i].id, value |-> T[i]]]]

(* The comprehension builds a new mapping of the current records.          *)
GetCurrentModelsResult(T) ==
    LET current == CurrentModels(T)
    IN  [kind |-> "json",
         items |-> [i \in 1..Len(current) |-> [key |-> current[i].id, value |-> current[i]]]]

(* Mutant of TableAfterCurrentView: the filter applied to the table itself. *)
TableFilteredInPlace(T) == CurrentModels(T)

(* The table after get_current_models: the comprehension reads MODELS and  *)
(* leaves it as it was.                                                    *)
TableAfterCurrentView(T) == T

GetAllModels ==
    /\ call = Idle
    /\ call' = [op |-> "get_all_models"]
    /\ result' = GetAllModelsResult(MODELS)
    /\ lookups' = <<>>
    /\ scored' = <<>>
    /\ UNCHANGED <<MODELS, initial, script>>

GetCurrentModels ==
    /\ call = Idle
    /\ call' = [op |-> "get_current_models"]
    /\ result' = GetCurrentModelsResult(MODELS)
    /\ lookups' = <<>>
    /\ scored' = <<>>
    /\ MODELS' = TableAfterCurrentView(MODELS)
    /\ UNCHANGED <<initial, script>>

(* ---------------------------------------------------------------------- *)
(* scripts/validate_models.py                                              *)
(* ---------------------------------------------------------------------- *)
ANTHROPIC == S(<<"A","n","t","h","r","o","p","i","c">>)

GOOGLE == S(<<"G","o","o","g","l","e">>)

XAI == S(<<"x","A","I">>)

MISTRAL == S(<<"M","i","s","t","r","a","l">>)

DEEPSEEK == S(<<"D","e","e","p","S","e","e","k">>)

(* One entry of RESULTS.  cause names what went wrong with the provider's  *)
(* check when the report stems from a failure, "none" otherwise.           *)
Report(model_id, provider, status, detail, cause) ==
    [id |-> model_id, provider |-> provider, status |-> status,
     detail |-> detail, cause |-> cause]

ModelsOf(T, provider) == LET mine(m) == m.provider = provider IN SelectSeq(T, mine)

(* What the environment does to a model-list request: "malformed" is a    *)
(* body that is not JSON, "no_list" a JSON object without the list key.    *)
ListOutcomes == {"no_key", "http_error", "timeout", "malformed", "no_list", "listed"}

(* What the environment does to one Anthropic message request.             *)
AnthropicResponses ==
    {"ok_200", "bad_model_400", "unauthorized_401", "status_500", "timeout"}

(* Mutant of Caught: only HTTP status errors are caught. *)
CaughtStatusOnly(error) == error = "http_error"

(* except Exception: raise_for_status, a timeout and a body without the    *)
(* expected keys all raise subclasses of Exception.                        *)
Caught(error) == error \in {"http_error", "timeout", "malformed"}

(* validate_openai, validate_google and validate_xai: the reports of the   *)
(* step, or an exception that leaves the step.  resp.json()["data"] raises *)
(* on a body without the key; Google's .get("models", []) reads it as an   *)
(* empty list.                                                             *)
ListStep(T, provider, outcome, available) ==
    LET mine == ModelsOf(T, provider)
        all(status, detail, cause) ==
            [i \in 1..Len(mine) |-> Report(mine[i].id, provider, status, detail, cause)]
        error == IF outcome = "no_list" THEN "malformed" ELSE outcome
    IN  IF outcome = "no_key"
        THEN [raised |-> FALSE, reports |-> all("skip", "no API key", "no_key")]
        ELSE IF outcome = "no_list" /\ provider = GOOGLE
        THEN [raised |-> FALSE,
              reports |-> all("warn", "model ID not in list", "malformed")]
        ELSE IF outcome # "listed"
        THEN IF Caught(error)
             THEN [raised |-> FALSE, reports |-> all("error", "API error", error)]
             ELSE [raised |-> TRUE, reports |-> <<>>]
        ELSE [raised |-> FALSE,
              reports |-> [i \in 1..Len(mine) |->
                  IF mine[i].id \in available
                  THEN Report(mine[i].id, provider, "ok", "model available", "none")
                  ELSE Report(mine[i].id, provider, "warn", "model ID not in list", "none")]]

(* The request loop of validate_anthropic from model i on.                 *)
RECURSIVE AnthropicLoop(_, _, _)
AnthropicLoop(mine, responses, i) ==
    IF i > Len(mine) THEN <<>>
    ELSE LET mid == mine[i].id
             rest == AnthropicLoop(mine, responses, i + 1)
         IN  CASE responses[i] = "ok_200" ->
                    <<Report(mid, ANTHROPIC, "ok", "model responds", "none")>> \o rest
               [] responses[i] = "bad_model_400" ->
                    <<Report(mid, ANTHROPIC, "error", "invalid model ID", "http_error")>> \o rest
               [] responses[i] = "unauthorized_401" ->
                    <<Report(mid, ANTHROPIC, "skip", "auth error", "http_error")>>
               [] responses[i] = "timeout" ->
                    <<Report(mid, ANTHROPIC, "error", "str(e)", "timeout")>> \o rest
               [] OTHER ->
                    <<Report(mid, ANTHROPIC, "warn", "HTTP 500", "http_error")>> \o rest

AnthropicStep(T, has_key, responses) ==
    LET mine == ModelsOf(T, ANTHROPIC)
    IN  IF ~has_key
        THEN [i \in 1..Len(mine) |->
                 Report(mine[i].id, ANTHROPIC, "skip", "no API key", "no_key")]
        ELSE AnthropicLoop(mine, responses, 1)

NoApiStep(T) ==
    LET skipped(provider) ==
            LET mine == ModelsOf(T, provider)
            IN  [i \in 1..Len(mine) |->
                    Report(mine[i].id, provider, "skip",
                           "no automated validation available", "none")]
    IN  skipped(META) \o skipped(MISTRAL) \o skipped(DEEPSEEK)

ErrorCount(reports) ==
    Cardinality({i \in 1..Len(reports) : reports[i].status = "error"})

(* An exception that leaves main ends the process with a traceback.        *)
Crashed(s) == [s EXCEPT !.pc = "crashed", !.exit = <<1>>]

Main ==
    /\ script.pc = "not_started"
    /\ script' = [script EXCEPT !.pc = "openai"]
    /\ UNCHANGED <<MODELS, call, result, lookups, scored, initial>>

ValidateListed(provider, here, next) ==
    /\ script.pc = here
    /\ \E outcome \in ListOutcomes :
       \E available \in (IF outcome = "listed"
                         THEN SUBSET KeySet(ModelsOf(MODELS, provider)) ELSE {{}}) :
          LET step == ListStep(MODELS, provider, outcome, available)
          IN  script' = IF step.raised
                        THEN Crashed(script)
                        ELSE [script EXCEPT !.pc = next,
                                            !.RESULTS = @ \o step.reports,
                                            !.ran = Append(@, here)]
    /\ UNCHANGED <<MODELS, call, result, lookups, scored, initial>>

ValidateOpenai == ValidateListed(OPENAI, "openai", "anthropic")

ValidateAnthropic ==
    /\ script.pc = "anthropic"
    /\ \E has_key \in BOOLEAN :
       \E responses \in (IF has_key
                         THEN [1..Len(ModelsOf(MODELS, ANTHROPIC)) -> AnthropicResponses]
                         ELSE {<<>>}) :
          script' = [script EXCEPT !.pc = "google",
                                   !.RESULTS = @ \o AnthropicStep(MODELS, has_key, responses),
                                   !.ran = Append(@, "anthropic")]
    /\ UNCHANGED <<MODELS, call, result, lookups, scored, initial>>

ValidateGoogle == ValidateListed(GOOGLE, "google", "xai")

ValidateXai == ValidateListed(XAI, "xai", "no_api")

ValidateNoApiProviders ==
    /\ script.pc = "no_api"
    /\ script' = [script EXCEPT !.pc = "summary",
                                !.RESULTS = @ \o NoApiStep(MODELS),
                                !.ran = Append(@, "no_api")]
    /\ UNCHANGED <<MODELS, call, result, lookups, scored, initial>>

Summary ==
    /\ script.pc = "summary"
    /\ script' = [script EXCEPT !.pc = "done",
                                !.exit = IF ErrorCount(script.RESULTS) > 0
                                         THEN <<1>> ELSE <<0>>]
    /\ UNCHANGED <<MODELS, call, result, lookups, scored, initial>>

(* Tables of the script checks: ids by position, any provider the script   *)
(* knows in every position.                                                *)
ValidatedProviders == {OPENAI, ANTHROPIC, GOOGLE, XAI, META}

ValidateTables ==
    {[i \in 1..Len(ps) |->
        Rec(PosId(i), Prof(ps[i], CURRENT, 128000, FALSE, FALSE, 1000, <<>>))] :
        ps \in SeqsUpTo(ValidatedProviders, MaxValidated)}

InitValidate ==
    /\ MODELS \in ValidateTables
    /\ call = Idle
    /\ result = NoResult
    /\ lookups = <<>>
    /\ scored = <<>>
    /\ initial = MODELS
    /\ script = NotStarted

NextValidate ==
    \/ Main
    \/ ValidateOpenai
    \/ ValidateAnthropic
    \/ ValidateGoogle
    \/ ValidateXai
    \/ ValidateNoApiProviders
    \/ Summary

(* asyncio.run drives main to its end: every await returns or raises       *)
(* within the request timeout.                                             *)
SpecValidate == InitValidate /\ [][NextValidate]_vars /\ WF_vars(NextValidate)

(* ---------------------------------------------------------------------- *)
(* The whole server on a few small tables.                                 *)
(* ---------------------------------------------------------------------- *)
Init ==
    /\ MODELS \in PosTables(CompareProfiles, MaxListed)
    /\ call = Idle
    /\ result = NoResult
    /\ lookups = <<>>
    /\ scored = <<>>
    /\ initial = MODELS
    /\ script = NotStarted

Next ==
    \/ ListModels
    \/ GetModelInfo
    \/ RecommendModel
    \/ CheckModelStatus
    \/ CompareModels
    \/ SearchModels
    \/ GetPricingSummary
    \/ GetAllModels
    \/ GetCurrentModels
    \/ Respond

Spec == Init /\ [][Next]_vars

(* ---------------------------------------------------------------------- *)
(* Resolution claims                                                       *)
(* ---------------------------------------------------------------------- *)
IsLookup == call.op \in {"get_model_info", "check_model_status"}

IsNotFound == result.kind \in {"info_not_found", "status_not_found"}

(* The response of the pending lookup is the one rendered from record m. *)
RendersRecord(m) ==
    /\ call.op = "get_model_info" => result = ModelDetail(m)
    /\ call.op = "check_model_status" =>
        /\ result.kind = "status"
        /\ result.id = m.id
        /\ result.display_name = m.display_name
        /\ result.status = m.status

CaseCollides(T, i) == \E j \in 1..Len(T) : j # i /\ Lower(T[j].id) = Lower(T[i].id)

Hits(T, q) == {i \in 1..Len(T) : Contains(Lower(T[i].id), Lower(q))}

Min(X) == CHOOSE x \in X : \A y \in X : x <= y

(* C1: a query equal byte-for-byte to the key of a record r resolves to r  *)
(* in get_model_info and in check_model_status, also when the query is a   *)
(* substring of keys that come earlier in table order.                     *)
C1_ExactMatchIdentity ==
    IsLookup =>
        \A i \in 1..Len(MODELS) :
            MODELS[i].id = call.model_id => RendersRecord(MODELS[i])

C1_Witness ==
    /\ call.op = "get_model_info"
    /\ \E i, j \in 1..Len(MODELS) :
        /\ j < i
        /\ MODELS[i].id = call.model_id
        /\ Contains(Lower(MODELS[j].id), Lower(call.model_id))
        /\ result = ModelDetail(MODELS[i])

(* C2: for a record r whose key collides case-insensitively with no other  *)
(* key, the upper-cased key resolves to r: the case-insensitive exact      *)
(* match wins over substring matches wherever they are in table order.     *)
C2_CaseInsensitiveExactFirst ==
    IsLookup =>
        \A i \in 1..Len(MODELS) :
            (~CaseCollides(MODELS, i) /\ call.model_id = Upper(MODELS[i].id))
                => RendersRecord(MODELS[i])

(* C3: a query that equals no key, exactly or case-insensitively, resolves *)
(* to the first key in table order whose lowercased form contains the      *)
(* lowercased query; the empty query resolves to the first record of a     *)
(* non-empty table.                                                        *)
C3_FirstSubstringHit ==
    (/\ IsLookup
     /\ \A i \in 1..Len(MODELS) : Lower(MODELS[i].id) # Lower(call.model_id))
        => /\ Hits(MODELS, call.model_id) # {}
                => RendersRecord(MODELS[Min(Hits(MODELS, call.model_id))])
           /\ (call.model_id = <<>> /\ Len(MODELS) > 0)
                => RendersRecord(MODELS[1])

C3_Witness ==
    /\ call.op = "check_model_status"
    /\ \A i \in 1..Len(MODELS) : Lower(MODELS[i].id) # Lower(call.model_id)
    /\ Cardinality(Hits(MODELS, call.model_id)) >= 2
    /\ call.model_id # <<>>
    /\ result.kind = "status"
    /\ result.id = MODELS[Min(Hits(MODELS, call.model_id))].id

(* C4: the lookups return the not-found text exactly when the query is not *)
(* a key and its lowercased form is a substring of no lowercased key, and  *)
(* the text carries the query as it was given.                             *)
C4_NotFoundExactlyWhenNoMatch ==
    IsLookup =>
        /\ result.kind \in {"detail", "status", "info_not_found", "status_not_found"}
        /\ IsNotFound <=>
            (/\ call.model_id \notin KeySet(MODELS)
             /\ Hits(MODELS, call.model_id) = {})
        /\ IsNotFound => result.model_id = call.model_id

C4_Witness ==
    /\ IsLookup
    /\ IsNotFound
    /\ Len(MODELS) > 0
    /\ Lower(call.model_id) # call.model_id
    /\ result.model_id = call.model_id

(* C5 as claimed: both not-found messages list every known identifier in   *)
(* table order.                                                            *)
C5_KnownIdsInTableOrder ==
    (IsLookup /\ IsNotFound /\ Len(MODELS) > 0) =>
        /\ "known" \in DOMAIN result
        /\ result.known = Keys(MODELS)

(* C5 (amended): the not-found message of get_model_info lists every known *)
(* identifier once, in ascending code-point order (sorted), and the        *)
(* not-found message of check_model_status lists no identifiers.           *)
C5_KnownIdsSorted ==
    /\ result.kind = "info_not_found" =>
        /\ Len(result.known) = Len(MODELS)
        /\ {result.known[i] : i \in 1..Len(result.known)} = KeySet(MODELS)
        /\ \A i, j \in 1..Len(result.known) :
              i < j => StrLess(result.known[i], result.known[j])
    /\ result.kind = "status_not_found" => "known" \notin DOMAIN result

C5_Witness ==
    /\ result.kind = "info_not_found"
    /\ Len(MODELS) >= 2
    /\ result.known # Keys(MODELS)

(* ---------------------------------------------------------------------- *)
(* Filter claims                                                           *)
(* ---------------------------------------------------------------------- *)
RenderedIds ==
    IF result.kind = "table"
    THEN [i \in 1..Len(result.rows) |-> result.rows[i].id]
    ELSE <<>>

(* The ids of the records of the table that satisfy Keep, in table order. *)
RECURSIVE IdsWhere(_, _, _)
IdsWhere(T, Keep, i) ==
    IF i > Len(T) THEN <<>>
    ELSE (IF T[i] \in Keep THEN <<T[i].id>> ELSE <<>>) \o IdsWhere(T, Keep, i + 1)

Rows(T) == {T[i] : i \in 1..Len(T)}

Supplied(opt) == opt # None /\ opt # Some(<<>>)

SameLetters(a, b) == Lower(a) = Lower(b)

CapabilityHolds(m, capability) ==
    IF SameLetters(capability[1], VISION) THEN m.vision
    ELSE IF SameLetters(capability[1], REASONING)
            \/ SameLetters(capability[1], THINKING) THEN m.reasoning
    ELSE TRUE

Satisfying(T, provider, status, capability) ==
    {m \in Rows(T) :
        /\ Supplied(provider) => SameLetters(m.provider, provider[1])
        /\ Supplied(status) => SameLetters(m.status, status[1])
        /\ Supplied(capability) => CapabilityHolds(m, capability)}

(* C6: list_models renders exactly the records that satisfy every supplied *)
(* predicate, in table order, none duplicated or dropped; with no filter   *)
(* it renders every record in the original order.                          *)
C6_FilterConjunction ==
    call.op = "list_models" =>
        /\ RenderedIds = IdsWhere(MODELS,
              Satisfying(MODELS, call.provider, call.status, call.capability), 1)
        /\ result.kind = "table" =>
              \A i \in 1..Len(result.rows) :
                  \E j \in 1..Len(MODELS) : result.rows[i] = FormatRow(MODELS[j])
        /\ (call.provider = None /\ call.status = None /\ call.capability = None)
              => RenderedIds = Keys(MODELS)

C6_Witness ==
    /\ call.op = "list_models"
    /\ Supplied(call.provider) /\ Supplied(call.status) /\ Supplied(call.capability)
    /\ Len(MODELS) >= 2
    /\ Len(RenderedIds) = 1
    /\ RenderedIds[1] = MODELS[2].id
    /\ \E i \in 1..Len(MODELS) :
          /\ Lower(MODELS[i].provider) = Lower(call.provider[1])
          /\ MODELS[i].provider # call.provider[1]

(* C7: capability vision (any letter case) keeps exactly the records with  *)
(* the vision flag, reasoning or thinking exactly those with the reasoning *)
(* flag, and any other capability value leaves the result as it is without *)
(* a capability argument.                                                  *)
C7_CapabilityFilter ==
    (call.op = "list_models" /\ call.capability # None /\ call.capability # Some(<<>>)) =>
        LET c == call.capability[1]
            base == Satisfying(MODELS, call.provider, call.status, None)
        IN  /\ SameLetters(c, VISION) =>
                RenderedIds = IdsWhere(MODELS, {m \in base : m.vision}, 1)
            /\ (SameLetters(c, REASONING) \/ SameLetters(c, THINKING)) =>
                RenderedIds = IdsWhere(MODELS, {m \in base : m.reasoning}, 1)
            /\ ~(SameLetters(c, VISION) \/ SameLetters(c, REASONING)
                    \/ SameLetters(c, THINKING)) =>
                result = ListModelsResult(MODELS, call.provider, call.status, None)

C7_Witness ==
    /\ call.op = "list_models"
    /\ call.capability # None
    /\ SameLetters(call.capability[1], THINKING)
    /\ call.capability[1] # THINKING
    /\ call.provider = None /\ call.status = None
    /\ Len(MODELS) >= 2
    /\ ~MODELS[1].reasoning
    /\ RenderedIds = <<MODELS[2].id>>

(* ---------------------------------------------------------------------- *)
(* Recommendation claims                                                   *)
(* ---------------------------------------------------------------------- *)
RecordOf(id) == MODELS[CHOOSE i \in 1..Len(MODELS) : MODELS[i].id = id]

(* C8: recommend_model returns at most 3 entries, pairwise distinct        *)
(* records of the table, all with status current, for every task and       *)
(* budget.                                                                 *)
C8_AtMostThreeCurrent ==
    call.op = "recommend_model" =>
        /\ Len(result.entries) <= 3
        /\ \A i, j \in 1..Len(result.entries) :
              result.entries[i].id = result.entries[j].id => i = j
        /\ \A i \in 1..Len(result.entries) :
              /\ result.entries[i].id \in KeySet(MODELS)
              /\ RecordOf(result.entries[i].id).status = CURRENT

C8_Witness ==
    /\ call.op = "recommend_model"
    /\ Len(result.entries) = 3
    /\ Len(CurrentModels(MODELS)) = 4
    /\ call.budget = Some(UNLIMITED)

IsVisionTask == HasAny(Lower(call.task), VisionWords)

IsOtherKeywordTask ==
    HasAny(Lower(call.task),
           CodingWords \cup ReasonWords \cup LongContextWords \cup CheapWords)

EntryRecords == [i \in 1..Len(result.entries) |-> RecordOf(result.entries[i].id)]

(* The ranking shown puts every current vision record above every current *)
(* record without vision.                                                 *)
VisionAboveOthers ==
    /\ \A i, j \in 1..Len(result.entries) :
          (i < j /\ EntryRecords[j].vision) => EntryRecords[i].vision
    /\ (\E i \in 1..Len(result.entries) : ~EntryRecords[i].vision) =>
          \A k \in 1..Len(MODELS) :
              (MODELS[k].status = CURRENT /\ MODELS[k].vision) =>
                  \E i \in 1..Len(result.entries) : result.entries[i].id = MODELS[k].id
    /\ Cardinality({k \in 1..Len(MODELS) :
                        MODELS[k].status = CURRENT /\ MODELS[k].vision}) >= 3 =>
          \A i \in 1..Len(result.entries) : EntryRecords[i].vision

(* C9 as claimed: for every task that contains vision or image, whatever   *)
(* other keywords it contains, and every budget, every current vision      *)
(* record ranks above every current record without vision.                 *)
C9_VisionAlwaysFirst ==
    (call.op = "recommend_model" /\ IsVisionTask) => VisionAboveOthers

(* C9 (amended): for every task that contains vision or image and none of  *)
(* the keywords of the other four task signals, and every budget, every    *)
(* current vision record ranks above every current record without vision.  *)
C9_VisionFirstOnPureVisionTask ==
    (call.op = "recommend_model" /\ IsVisionTask /\ ~IsOtherKeywordTask)
        => VisionAboveOthers

C9_Witness ==
    /\ call.op = "recommend_model"
    /\ IsVisionTask /\ ~IsOtherKeywordTask
    /\ call.budget = Some(Upper(CHEAP))
    /\ Len(MODELS) >= 2
    /\ MODELS[1].status = CURRENT /\ ~MODELS[1].vision /\ MODELS[1].pricing_input = 0
    /\ MODELS[2].status = CURRENT /\ MODELS[2].vision /\ MODELS[2].pricing_input > 5000
    /\ Len(result.entries) >= 2
    /\ result.entries[1].id = MODELS[2].id
    /\ \E i \in 1..Len(result.entries) : result.entries[i].id = MODELS[1].id

(* ---------------------------------------------------------------------- *)
(* Comparison claims                                                       *)
(* ---------------------------------------------------------------------- *)
IsPrefix(s, u) == Len(s) <= Len(u) /\ \A i \in 1..Len(s) : s[i] = u[i]

ShownNames ==
    IF result.kind = "comparison"
    THEN {result.columns[i].display_name : i \in 1..Len(result.columns)}
    ELSE {}

(* C10: compare_models returns the fixed at-least-2 message for a list of  *)
(* 0 or 1 identifiers; of more than 5 identifiers only the first 5 are     *)
(* used, in input order: a rendered comparison has exactly 5 columns, the  *)
(* 6th and later identifiers are not resolved and add no display name.     *)
C10_CompareBounds ==
    call.op = "compare_models" =>
        /\ Len(call.model_ids) < 2 => (result.kind = "at_least_2" /\ lookups = <<>>)
        /\ Len(call.model_ids) >= 2 => result.kind \in {"comparison", "compare_not_found"}
        /\ Len(call.model_ids) > 5 =>
            /\ IsPrefix(lookups, SubSeq(call.model_ids, 1, 5))
            /\ result.kind = "comparison" =>
                /\ Len(result.columns) = 5
                /\ \A i \in 1..5 :
                      result.columns[i].id = MODELS[Resolve(MODELS, call.model_ids[i])].id
                /\ \A k \in 1..Len(MODELS) :
                      MODELS[k].display_name \in ShownNames =>
                          \E i \in 1..5 : Resolve(MODELS, call.model_ids[i]) = k
            /\ result.kind = "compare_not_found" =>
                \E i \in 1..5 : result.model_id = call.model_ids[i]

C10_Witness ==
    /\ call.op = "compare_models"
    /\ Len(call.model_ids) = 6
    /\ result.kind = "comparison"
    /\ Len(result.columns) = 5
    /\ Resolve(MODELS, call.model_ids[6]) # NotFound
    /\ MODELS[Resolve(MODELS, call.model_ids[6])].display_name \notin ShownNames

Unresolvable(ids) ==
    {i \in 1..Len(ids) : ids[i] \notin KeySet(MODELS) /\ Hits(MODELS, ids[i]) = {}}

(* C11: when one of the identifiers compare_models uses does not resolve,  *)
(* the result is only the not-found message naming the first of them, with *)
(* no column; when all resolve there is one column per identifier used, in *)
(* input order, duplicates included.                                       *)
C11_CompareAllOrNothing ==
    (call.op = "compare_models" /\ Len(call.model_ids) >= 2) =>
        LET used == SubSeq(call.model_ids, 1, Min2(5, Len(call.model_ids)))
        IN  /\ Unresolvable(used) # {} =>
                /\ result.kind = "compare_not_found"
                /\ result.model_id = used[Min(Unresolvable(used))]
                /\ "columns" \notin DOMAIN result
            /\ Unresolvable(used) = {} =>
                /\ result.kind = "comparison"
                /\ Len(result.columns) = Len(used)
                /\ \A i \in 1..Len(used) :
                      result.columns[i] = CompareColumn(MODELS[Resolve(MODELS, used[i])])

C11_Witness ==
    /\ call.op = "compare_models"
    /\ Len(call.model_ids) = 3
    /\ Unresolvable(call.model_ids) = {2, 3}
    /\ call.model_ids[2] # call.model_ids[3]
    /\ result.kind = "compare_not_found"
    /\ result.model_id = call.model_ids[2]

(* ---------------------------------------------------------------------- *)
(* Status, pricing and search claims                                       *)
(* ---------------------------------------------------------------------- *)
IndexOf(id) == CHOOSE i \in 1..Len(MODELS) : MODELS[i].id = id

Gap(k, r) == Abs(MODELS[k].pricing_input - r.pricing_input)

(* C12: check_model_status appends a replacement exactly when the resolved *)
(* record is legacy or deprecated and a current record of the same         *)
(* provider exists; the replacement is the current same-provider record    *)
(* closest in pricing_input, the earliest in table order among equally     *)
(* close ones.                                                             *)
C12_ClosestCurrentReplacement ==
    (call.op = "check_model_status" /\ result.kind = "status") =>
        LET r == RecordOf(result.id)
            cands == {k \in 1..Len(MODELS) :
                        MODELS[k].provider = r.provider /\ MODELS[k].status = CURRENT}
        IN  /\ Len(result.replacement) \in {0, 1}
            /\ Len(result.replacement) = 1 <=>
                  (r.status \in {LEGACY, DEPRECATED} /\ cands # {})
            /\ r.status = CURRENT => result.replacement = <<>>
            /\ Len(result.replacement) = 1 =>
                  LET k == IndexOf(result.replacement[1].id)
                  IN  /\ k \in cands
                      /\ result.replacement[1].display_name = MODELS[k].display_name
                      /\ \A j \in cands :
                            \/ Gap(k, r) < Gap(j, r)
                            \/ (Gap(k, r) = Gap(j, r) /\ k <= j)

C12_Witness ==
    /\ call.op = "check_model_status"
    /\ result.kind = "status"
    /\ Len(MODELS) = 3
    /\ result.id = MODELS[3].id
    /\ MODELS[3].status = LEGACY
    /\ MODELS[1].status = CURRENT /\ MODELS[2].status = CURRENT
    /\ MODELS[1].provider = MODELS[3].provider
    /\ MODELS[2].provider = MODELS[3].provider
    /\ MODELS[1].pricing_input > MODELS[3].pricing_input
    /\ Gap(1, MODELS[3]) = Gap(2, MODELS[3])
    /\ result.replacement = <<[display_name |-> MODELS[1].display_name,
                               id |-> MODELS[1].id]>>

PricingIds == [i \in 1..Len(result.rows) |-> result.rows[i].id]

(* C13: get_pricing_summary renders exactly the current records, each      *)
(* once, with pricing_input non-decreasing from the first row to the last. *)
C13_PricingCurrentAscending ==
    call.op = "get_pricing_summary" =>
        /\ Len(PricingIds) = Len(CurrentModels(MODELS))
        /\ {PricingIds[i] : i \in 1..Len(PricingIds)}
              = {m.id : m \in {x \in Rows(MODELS) : x.status = CURRENT}}
        /\ \A i, j \in 1..Len(PricingIds) :
              i < j => RecordOf(PricingIds[i]).pricing_input
                          <= RecordOf(PricingIds[j]).pricing_input

C13_Witness ==
    /\ call.op = "get_pricing_summary"
    /\ Len(MODELS) = 3
    /\ MODELS[1].status = CURRENT /\ MODELS[3].status = CURRENT
    /\ MODELS[2].status # CURRENT
    /\ MODELS[1].pricing_input > MODELS[3].pricing_input
    /\ PricingIds = <<MODELS[3].id, MODELS[1].id>>

FieldsMatching(m, q) ==
    {f \in {"id", "display_name", "provider", "notes"} :
        Contains(Lower(m[f]), Lower(q))}

(* C14: search_models renders exactly the records with the lowercased      *)
(* query in at least one of the lowercased id, display_name, provider and  *)
(* notes, each once, and the fixed no-models sentence when there is none.  *)
C14_SearchUnionOnce ==
    call.op = "search_models" =>
        LET found == {m \in Rows(MODELS) : FieldsMatching(m, call.query) # {}}
        IN  /\ result.kind = "no_models_found" <=> found = {}
            /\ result.kind \in {"no_models_found", "table"}
            /\ {RenderedIds[i] : i \in 1..Len(RenderedIds)} = {m.id : m \in found}
            /\ Len(RenderedIds) = Cardinality(found)

C14_Witness ==
    /\ call.op = "search_models"
    /\ Len(MODELS) = 3
    /\ Cardinality(FieldsMatching(MODELS[2], call.query)) >= 2
    /\ FieldsMatching(MODELS[1], call.query) = {}
    /\ FieldsMatching(MODELS[3], call.query) = {"notes"}
    /\ RenderedIds = <<MODELS[2].id, MODELS[3].id>>

(* ---------------------------------------------------------------------- *)
(* Frame and round-trip claims                                             *)
(* ---------------------------------------------------------------------- *)
(* What the call in progress returns when it runs alone on table T.        *)
ResultAlone(c, T) ==
    CASE c.op = "list_models" -> ListModelsResult(T, c.provider, c.status, c.capability)
      [] c.op = "get_model_info" -> GetModelInfoResult(T, c.model_id)
      [] c.op = "recommend_model" -> RecommendModelResult(T, c.task, c.budget)
      [] c.op = "check_model_status" -> CheckModelStatusResult(T, c.model_id)
      [] c.op = "compare_models" -> CompareModelsResult(T, c.model_ids)
      [] c.op = "search_models" -> SearchModelsResult(T, c.query)
      [] c.op = "get_pricing_summary" -> PricingSummaryResult(T)
      [] c.op = "get_all_models" -> GetAllModelsResult(T)
      [] c.op = "get_current_models" -> GetCurrentModelsResult(T)

ParsePrice(shown) == (shown.units * 100 + shown.hundredths) * 10

(* C16: the provider, status, pricing_input and pricing_output read back   *)
(* from the detail block of a record equal the record's values.            *)
C16_DetailRoundTrip ==
    (call.op = "get_model_info" /\ result.kind = "detail") =>
        LET m == RecordOf(result.id)
        IN  /\ result.provider = m.provider
            /\ result.status = m.status
            /\ ParsePrice(result.pricing_input) = m.pricing_input
            /\ ParsePrice(result.pricing_output) = m.pricing_output

(* ---------------------------------------------------------------------- *)
(* Scoring and ranking claims                                              *)
(* ---------------------------------------------------------------------- *)
(* The scoring table, in 1/10000 of a point, prices in mills.              *)
ClaimedSignals(m, t) ==
    LET has(words) == \E w \in words : Contains(t, w)
        p == m.pricing_input
    IN  (IF has(CodingWords) /\ m.reasoning THEN 30000 ELSE 0)
        + (IF has(CodingWords) /\ m.context_window >= 200000 THEN 10000 ELSE 0)
        + (IF has(VisionWords) THEN (IF m.vision THEN 40000 ELSE -100000) ELSE 0)
        + (IF has(ReasonWords) /\ m.reasoning THEN 50000 ELSE 0)
        + (IF ~has(LongContextWords) THEN 0
           ELSE IF m.context_window >= 1000000 THEN 40000
           ELSE IF m.context_window >= 200000 THEN 20000 ELSE 0)
        + (IF has(CheapWords) /\ p < 5000 THEN 50000 - 10 * p ELSE 0)

ClaimedModifier(m, b) ==
    LET p == m.pricing_input
    IN  CASE b = CHEAP -> (IF p < 3000 THEN 30000 - 10 * p ELSE 0)
                          - (IF p > 5000 THEN 50000 ELSE 0)
          [] b = UNLIMITED -> (IF p < 5000 THEN 10 * p ELSE 50000)
          [] OTHER -> 0

ClaimedPrior(m) == IF 3 * m.pricing_input < 20000 THEN 3 * m.pricing_input ELSE 20000

ClaimedBudget(budget) ==
    IF budget = None \/ budget = Some(<<>>) THEN MODERATE ELSE Lower(budget[1])

CurrentIndices == {i \in 1..Len(MODELS) : MODELS[i].status = CURRENT}

(* C17: every current record's score is the sum of the task-keyword        *)
(* signals (tested on the lowercased task, each on its own), the budget    *)
(* modifier and the price prior min(pricing_input * 0.3, 2); an absent or  *)
(* empty budget counts as moderate, the budget is lowercased, and a budget *)
(* other than cheap and unlimited gives the entries moderate gives.        *)
C17_ScoreIsSumOfSignals ==
    call.op = "recommend_model" =>
        LET t == Lower(call.task)
            b == ClaimedBudget(call.budget)
        IN  /\ {scored[i].id : i \in 1..Len(scored)} = {MODELS[i].id : i \in CurrentIndices}
            /\ Len(scored) = Cardinality(CurrentIndices)
            /\ \A i \in 1..Len(scored) :
                  LET m == RecordOf(scored[i].id)
                  IN  scored[i].score
                        = ClaimedSignals(m, t) + ClaimedModifier(m, b) + ClaimedPrior(m)
            /\ result.budget = b
            /\ b \notin {CHEAP, UNLIMITED} =>
                  result.entries
                    = RecommendModelResult(MODELS, call.task, Some(MODERATE)).entries

C17_Witness ==
    /\ call.op = "recommend_model"
    /\ call.budget = Some(Upper(CHEAP))
    /\ call.task = S(<<"I","M","A","G","E"," ","m","a","t","h"," ","b","a","t","c","h">>)
    /\ Len(scored) = 2
    /\ RecordOf(scored[1].id).pricing_input = 5500
    /\ scored[1].score = 6500
    /\ RecordOf(scored[2].id).pricing_input = 0
    /\ scored[2].score = 30000

ScoreOfIndex(k) == scored[CHOOSE i \in 1..Len(scored) : scored[i].id = MODELS[k].id].score

(* Record j ranks before record k: a higher score, or the same score and   *)
(* an earlier place in the table.                                          *)
RanksBefore(j, k) ==
    \/ ScoreOfIndex(j) > ScoreOfIndex(k)
    \/ (ScoreOfIndex(j) = ScoreOfIndex(k) /\ j < k)

EntryIndex(e) == IndexOf(result.entries[e].id)

(* C18: the entries are the first min(3, number of current records) of the *)
(* current records by descending score, equal scores in table order; no    *)
(* current record left out has a higher score than one returned.           *)
C18_TopThreeStable ==
    call.op = "recommend_model" =>
        LET n == Len(result.entries)
            inside == {EntryIndex(e) : e \in 1..n}
        IN  /\ n = Min2(3, Cardinality(CurrentIndices))
            /\ inside \subseteq CurrentIndices
            /\ \A e \in 1..n : result.entries[e] = RecommendEntry(MODELS[EntryIndex(e)])
            /\ \A e \in 1..(n - 1) : RanksBefore(EntryIndex(e), EntryIndex(e + 1))
            /\ \A j \in CurrentIndices \ inside : \A k \in inside :
                  /\ RanksBefore(k, j)
                  /\ ScoreOfIndex(j) <= ScoreOfIndex(k)

C18_Witness ==
    /\ call.op = "recommend_model"
    /\ Len(MODELS) = 4
    /\ CurrentIndices = {1, 2, 3, 4}
    /\ ScoreOfIndex(1) < ScoreOfIndex(2)
    /\ ScoreOfIndex(2) = ScoreOfIndex(3)
    /\ ScoreOfIndex(3) = ScoreOfIndex(4)
    /\ [e \in 1..3 |-> EntryIndex(e)] = <<2, 3, 4>>

(* ---------------------------------------------------------------------- *)
(* Empty-string arguments                                                  *)
(* ---------------------------------------------------------------------- *)
Omitted(opt) == IF opt = Some(<<>>) THEN None ELSE opt

(* C20: list_models with an empty-string provider, status or capability    *)
(* returns what the same call returns with that argument left out; an      *)
(* empty-string provider alone renders the whole of a non-empty table.     *)
C20_EmptyStringIsAbsent ==
    call.op = "list_models" =>
        /\ result = ListModelsResult(MODELS, Omitted(call.provider),
                                     Omitted(call.status), Omitted(call.capability))
        /\ RenderedIds = IdsWhere(MODELS,
              Satisfying(MODELS, Omitted(call.provider), Omitted(call.status),
                         Omitted(call.capability)), 1)
        /\ (/\ call.provider = Some(<<>>)
            /\ call.status = None /\ call.capability = None
            /\ Len(MODELS) > 0)
              => (result.kind = "table" /\ RenderedIds = Keys(MODELS))

C20_Witness ==
    /\ call.op = "list_models"
    /\ call.provider = Some(<<>>)
    /\ call.status = Some(<<>>)
    /\ call.capability = Some(Upper(VISION))
    /\ Len(MODELS) = 2
    /\ ~MODELS[1].vision /\ MODELS[2].vision
    /\ result.kind = "table"
    /\ RenderedIds = <<MODELS[2].id>>

(* ---------------------------------------------------------------------- *)
(* Validation script claim                                                 *)
(* ---------------------------------------------------------------------- *)
Reports == {script.RESULTS[i] : i \in 1..Len(script.RESULTS)}

AllSteps == <<"openai", "anthropic", "google", "xai", "no_api">>

(* Every report is about a model of the provider it names, no model is     *)
(* reported twice, and a report that stems from a failure has one of the   *)
(* given statuses.                                                         *)
FailuresIsolated(statuses) ==
    /\ \A r \in Reports :
          /\ r.id \in KeySet(MODELS)
          /\ RecordOf(r.id).provider = r.provider
          /\ r.cause # "none" => r.status \in statuses
    /\ \A i, j \in 1..Len(script.RESULTS) :
          script.RESULTS[i].id = script.RESULTS[j].id => i = j

(* A failed model-list request accounts for every model of its provider.   *)
ListFailureCoversProvider ==
    \A r \in Reports :
        (r.cause # "none" /\ r.provider \in {OPENAI, GOOGLE, XAI}) =>
            /\ r.provider # GOOGLE => r.status \in {"skip", "error"}
            /\ \A i \in 1..Len(MODELS) :
                  MODELS[i].provider = r.provider =>
                      \E q \in Reports :
                          q.id = MODELS[i].id /\ q.status = r.status /\ q.cause = r.cause

EveryStepRuns ==
    /\ script.pc # "crashed"
    /\ script.pc \in {"summary", "done"} => script.ran = AllSteps

ExitCodeTellsErrors ==
    script.pc = "done" =>
        /\ script.exit \in {<<0>>, <<1>>}
        /\ script.exit # <<0>> <=> \E r \in Reports : r.status = "error"

(* C19 as claimed: a provider's failure becomes skip or error reports for  *)
(* that provider's models only, every later step runs, the run reaches the *)
(* summary, and the exit code is non-zero exactly when an error report was *)
(* recorded.                                                               *)
C19_FailuresBecomeSkipOrError ==
    /\ FailuresIsolated({"skip", "error"})
    /\ EveryStepRuns
    /\ ExitCodeTellsErrors

(* C19 (amended): a provider's failure becomes skip, warn or error reports *)
(* for that provider's models only (warn only for an Anthropic response    *)
(* with an unexpected HTTP status and for a Google body without the model  *)
(* list), every later step runs, the run reaches the summary, and the exit *)
(* code is non-zero exactly when an error report was recorded.             *)
C19_FailuresIsolatedRunCompletes ==
    /\ [](/\ FailuresIsolated({"skip", "warn", "error"})
          /\ \A r \in Reports :
                (r.cause # "none" /\ r.status = "warn") =>
                    \/ (r.provider = ANTHROPIC /\ r.cause = "http_error")
                    \/ (r.provider = GOOGLE /\ r.cause = "malformed")
          /\ ListFailureCoversProvider
          /\ EveryStepRuns
          /\ ExitCodeTellsErrors)
    /\ <>(script.pc = "done")

C19_Witness ==
    /\ script.pc = "done"
    /\ Len(MODELS) = 2
    /\ MODELS[1].provider = OPENAI
    /\ MODELS[2].provider = ANTHROPIC
    /\ script.RESULTS
         = <<Report(MODELS[1].id, OPENAI, "error", "API error", "timeout"),
             Report(MODELS[2].id, ANTHROPIC, "warn", "HTTP 500", "http_error")>>
    /\ script.exit = <<1>>

====
